---- MODULE Spec2Model ----
(***************************************************************************)
(* A model of src/src/ubus/protocol.py: the Ubus JSON-RPC client, its      *)
(* request envelope and result decoding (_do_request), the lazy caches of  *)
(* namespaces and methods, Method invocation and login.                    *)
(***************************************************************************)
EXTENDS Integers, Sequences, FiniteSets, TLC

VARIABLES
    message_id,       \* Ubus._message_id
    session_id,       \* Ubus._session_id
    ifaces,           \* Ubus._ifaces: None, or the set of namespace names
    methods,          \* UbusNamespace._methods, per namespace name
    sent,             \* the request envelopes built by the last operation
    posts,            \* number of requests.post calls made so far
    built,            \* number of request envelopes built so far
    ifaces_fetches,   \* number of completed _fetch_ifaces calls
    methods_fetches,  \* number of completed _fetch_methods calls, per namespace
    op,               \* the last operation and its arguments
    response,         \* the transport's answer to the last request of op
    outcome           \* what the last operation returned or raised

vars == <<message_id, session_id, ifaces, methods, sent, posts, built,
          ifaces_fetches, methods_fetches, op, response, outcome>>

(***************************************************************************)
(* Python values (JSON values after res.json(), and None).                 *)
(* A dict is a set of <<key, value>> pairs with distinct string keys.      *)
(***************************************************************************)
None == [t |-> "None"]
PyBool(b) == [t |-> "bool", v |-> b]
PyInt(n) == [t |-> "int", v |-> n]
PyStr(s) == [t |-> "str", v |-> s]
PyList(q) == [t |-> "list", v |-> q]
PyDict(d) == [t |-> "dict", v |-> d]

Keys(x) == {p[1] : p \in x.v}
Get(x, k) == (CHOOSE p \in x.v : p[1] = k)[2]
Del(x, k) == PyDict({p \in x.v : p[1] # k})

\* The strings of the model that contain another (non-empty) string of the
\* model as a proper substring.
ProperSubstrings == {<<"results", "no results">>, <<"ubus_rpc_session", "no ubus_rpc_session">>}

IsSubstring(a, b) == a = "" \/ a = b \/ <<a, b>> \in ProperSubstrings

\* `for x in s` over a str yields its characters.
Chars(s) ==
    CASE s = "" -> {}
      [] s = "a" -> {"a"}

\* `k in x` raises TypeError unless x is a dict, a list or a str
Iterable(x) == x.t \in {"dict", "list", "str"}

\* the names `for x in v` yields: the keys of a dict, the characters of a
\* str, the elements of a list (of strs)
IterNames(x) ==
    CASE x.t = "dict" -> Keys(x)
      [] x.t = "str" -> Chars(x.v)
      [] x.t = "list" -> {x.v[i].v : i \in 1..Len(x.v)}

\* `k in x` for a str k and an iterable x
In(k, x) ==
    CASE x.t = "dict" -> k \in Keys(x)
      [] x.t = "list" -> \E i \in 1..Len(x.v) : x.v[i] = PyStr(k)
      [] x.t = "str" -> IsSubstring(k, x.v)

\* x[k] for a str k succeeds only on a dict holding k; on a list or a str
\* it raises TypeError (indices must be integers)
Subscriptable(x, k) == x.t = "dict" /\ k \in Keys(x)

\* bool(x) as `not x` computes it
Truthy(x) ==
    CASE x.t = "None" -> FALSE
      [] x.t = "bool" -> x.v
      [] x.t = "int" -> x.v # 0
      [] x.t = "str" -> x.v # ""
      [] x.t = "list" -> Len(x.v) # 0
      [] x.t = "dict" -> x.v # {}

(***************************************************************************)
(* Outcomes of a call: a returned value or a raised exception.  why names  *)
(* the raise site, v the value the message carries.                        *)
(***************************************************************************)
Return(v) == [k |-> "return", exc |-> "", why |-> "", v |-> v]
Raise(exc, why, v) == [k |-> "raise", exc |-> exc, why |-> why, v |-> v]

(***************************************************************************)
(* class UbusError(IntEnum)                                                *)
(***************************************************************************)
UBUS_STATUS_OK == 0
UBUS_STATUS_CONNECTION_FAILED == 10
UBUS_STATUS_LAST == 11

\* The name __UBUS_STATUS_LAST is mangled to _UbusError__UBUS_STATUS_LAST in
\* the class body: an Enum of Python >= 3.11 keeps such a private name as a
\* plain attribute, an older one makes it a member.  private_member says
\* which interpreter runs the code.
UbusErrorValues(private_member) ==
    (UBUS_STATUS_OK..UBUS_STATUS_CONNECTION_FAILED)
        \cup (IF private_member THEN {UBUS_STATUS_LAST} ELSE {})

\* The int a value hashes and compares as in the enum's value lookup
\* (True == 1, False == 0); -1, which is no member, for the values equal to no int.
AsInt(x) ==
    CASE x.t = "int" -> x.v
      [] x.t = "bool" -> (IF x.v THEN 1 ELSE 0)
      [] OTHER -> -1

\* UbusError(x): the member's value, or ValueError
IsUbusError(x, private_member) == AsInt(x) \in UbusErrorValues(private_member)

(***************************************************************************)
(* The transport: requests.post either raises or answers with a status     *)
(* code and a body; res.json() parses the body.                            *)
(***************************************************************************)
HTTP_OK == 200
NoResponse == [kind |-> "none", status |-> 0, body |-> None]
Timeout == [kind |-> "timeout", status |-> 0, body |-> None]
ConnectionError == [kind |-> "connection", status |-> 0, body |-> None]
Http(status, body) == [kind |-> "http", status |-> status, body |-> body]
NotJson == [t |-> "notjson"]

(***************************************************************************)
(* Ubus._do_request, lines 160-200: from the POST's result to the          *)
(* returned payload or the raised exception.                               *)
(***************************************************************************)
\* the unwrapping without its 'results' step
UnwrapPayload_no_results(method, payload0) ==
    IF ~Iterable(payload0) THEN Raise("TypeError", "method in payload", payload0)
    ELSE IF In(method, payload0) /\ ~Subscriptable(payload0, method)
    THEN Raise("TypeError", "payload[method]", payload0)
    ELSE Return(IF In(method, payload0) THEN Get(payload0, method) ELSE payload0)

\* lines 191-198: the payload of a two-element result with status OK
UnwrapPayload(method, payload0) ==
    IF ~Iterable(payload0) THEN Raise("TypeError", "method in payload", payload0)
    ELSE IF In(method, payload0) /\ ~Subscriptable(payload0, method)
    THEN Raise("TypeError", "payload[method]", payload0)
    ELSE LET payload == IF In(method, payload0) THEN Get(payload0, method) ELSE payload0
         IN  IF payload.t = "bool" THEN Return(payload)
             ELSE IF ~Iterable(payload) THEN Raise("TypeError", "'results' in payload", payload)
             ELSE IF ~In("results", payload) THEN Return(payload)
             ELSE IF ~Subscriptable(payload, "results")
             THEN Raise("TypeError", "payload['results']", payload)
             ELSE Return(Get(payload, "results"))

\* the list decoding that takes a one-element [0] for success
DecodeList_single_ok(method, result, private_member) ==
    IF Len(result.v) = 1 /\ AsInt(result.v[1]) = UBUS_STATUS_OK THEN Return(None)
    ELSE IF Len(result.v) = 1 THEN Raise("UbusException", "Got error", result.v[1])
    ELSE IF Len(result.v) # 2
    THEN Raise("UbusException", "Result length was not 2", result)
    ELSE IF ~IsUbusError(result.v[1], private_member)
    THEN Raise("ValueError", "UbusError", result.v[1])
    ELSE IF AsInt(result.v[1]) # UBUS_STATUS_OK
    THEN Raise("UbusException", "Got an error", result)
    ELSE UnwrapPayload(method, result.v[2])

\* lines 180-198: a result that is a list
DecodeList(method, result, private_member) ==
    IF Len(result.v) = 1
    THEN IF IsUbusError(result.v[1], private_member)
         THEN Raise("UbusException", "Got error", result.v[1])
         ELSE Raise("ValueError", "UbusError", result.v[1])
    ELSE IF Len(result.v) # 2
    THEN Raise("UbusException", "Result length was not 2", result)
    ELSE IF ~IsUbusError(result.v[1], private_member)
    THEN Raise("ValueError", "UbusError", result.v[1])
    ELSE IF AsInt(result.v[1]) # UBUS_STATUS_OK
    THEN Raise("UbusException", "Got an error", result)
    ELSE UnwrapPayload(method, result.v[2])

\* the decoding that looks for a result before it looks for an error
DecodeResponse_result_first(method, status, body, private_member) ==
    IF status # HTTP_OK THEN Raise("UbusException", "Got a non-200 retcode", PyInt(status))
    ELSE IF body = NotJson THEN Raise("JSONDecodeError", "res.json()", None)
    ELSE IF ~Iterable(body) THEN Raise("TypeError", "'error' in response", body)
    ELSE IF In("result", body) /\ Subscriptable(body, "result")
    THEN LET result == Get(body, "result")
         IN  IF result.t = "dict" THEN Return(result)
             ELSE IF result.t = "list" THEN DecodeList(method, result, private_member)
             ELSE Return(None)
    ELSE IF In("error", body) /\ Subscriptable(body, "error")
    THEN Raise("UbusException", "Got error from ubus", Get(body, "error"))
    ELSE Raise("UbusException", "Got no result", body)

\* the decoding that returns a result that is neither a dict nor a list as it is
DecodeResponse_scalar_returned(method, status, body, private_member) ==
    IF status # HTTP_OK THEN Raise("UbusException", "Got a non-200 retcode", PyInt(status))
    ELSE IF body = NotJson THEN Raise("JSONDecodeError", "res.json()", None)
    ELSE IF ~Iterable(body) THEN Raise("TypeError", "'error' in response", body)
    ELSE IF In("error", body)
    THEN IF Subscriptable(body, "error")
         THEN Raise("UbusException", "Got error from ubus", Get(body, "error"))
         ELSE Raise("TypeError", "response['error']", body)
    ELSE IF ~In("result", body) THEN Raise("UbusException", "Got no result", body)
    ELSE IF ~Subscriptable(body, "result") THEN Raise("TypeError", "response['result']", body)
    ELSE LET result == Get(body, "result")
         IN  IF result.t = "list" THEN DecodeList(method, result, private_member)
             ELSE Return(result)

\* lines 167-200: the answer of the POST
DecodeResponse(method, status, body, private_member) ==
    IF status # HTTP_OK THEN Raise("UbusException", "Got a non-200 retcode", PyInt(status))
    ELSE IF body = NotJson THEN Raise("JSONDecodeError", "res.json()", None)
    ELSE IF ~Iterable(body) THEN Raise("TypeError", "'error' in response", body)
    ELSE IF In("error", body)
    THEN IF Subscriptable(body, "error")
         THEN Raise("UbusException", "Got error from ubus", Get(body, "error"))
         ELSE Raise("TypeError", "response['error']", body)
    ELSE IF ~In("result", body) THEN Raise("UbusException", "Got no result", body)
    ELSE IF ~Subscriptable(body, "result") THEN Raise("TypeError", "response['result']", body)
    ELSE LET result == Get(body, "result")
         IN  IF result.t = "dict" THEN Return(result)
             ELSE IF result.t = "list" THEN DecodeList(method, result, private_member)
             ELSE Return(None)

\* lines 160-200
Decode(method, resp, private_member) ==
    CASE resp.kind = "timeout" -> Raise("UbusException", "Got timeout", None)
      [] resp.kind = "connection" -> Raise("UbusException", "Got error during post", None)
      [] resp.kind = "http" -> DecodeResponse(method, resp.status, resp.body, private_member)

(***************************************************************************)
(* The client: Ubus with its UbusNamespace and Method objects, held in one *)
(* record c.  Every operation yields the set of its possible results       *)
(* [c |-> the client afterwards, out |-> returned or raised], one for each *)
(* answer the transport can give to each request it makes.                 *)
(***************************************************************************)
PLACEHOLDER == PyStr("00000000000000000000000000000000")

NamespaceNames == {"session", "rpc"}

UbusNamespaceObject(name) == [t |-> "UbusNamespace", name |-> name]
MethodObject(namespace, name, parameters) ==
    [t |-> "Method", namespace |-> namespace, name |-> name, parameters |-> parameters]

\* Ubus.__init__ and the counters of the model
NewUbus ==
    [message_id |-> 0, session_id |-> PLACEHOLDER, ifaces |-> None,
     methods |-> [n \in NamespaceNames |-> None],
     sent |-> <<>>, posts |-> 0, built |-> 0, response |-> NoResponse,
     ifaces_fetches |-> 0, methods_fetches |-> [n \in NamespaceNames |-> 0]]

\* run F on every result of S that returned; a raised exception propagates
Bind(S, F(_)) == UNION {IF r.out.k = "raise" THEN {r} ELSE F(r) : r \in S}

\* id without the increment: the next request reuses the number
id_reused(c) == [c |-> c, v |-> c.message_id + 1]

\* Ubus.id
id(c) == [c |-> [c EXCEPT !.message_id = @ + 1], v |-> c.message_id + 1]

\* Ubus.session_id
SessionIdOf(c) == c.session_id

\* the parameter names of _do_request and of UbusNamespace.call that a
\* keyword argument of the same name collides with
DoRequestParameters == {"self", "rpcmethod", "subsystem", "method"}
CallParameters == {"self", "method"}

\* Ubus._do_request, lines 148-157: the envelope
Envelope(c, i, rpcmethod, subsystem, method, params) ==
    [jsonrpc |-> "2.0", id |-> i, method |-> rpcmethod,
     params |-> <<SessionIdOf(c), subsystem, method, params>>]

\* the request that posts a second time when the transport raised
do_request_retry(c, rpcmethod, subsystem, method, params, R) ==
    IF Keys(params) \cap DoRequestParameters # {}
    THEN {[c |-> c, out |-> Raise("TypeError", "multiple values for argument", params)]}
    ELSE LET i == id(c)
             data == Envelope(i.c, i.v, rpcmethod, subsystem, method, params)
             c1 == [i.c EXCEPT !.sent = Append(@, data), !.built = @ + 1]
         IN  {[c |-> [c1 EXCEPT !.posts = @ + (IF r.kind = "http" THEN 1 ELSE 2),
                                !.response = r],
               out |-> Decode(method, r, pm)] : r \in R, pm \in BOOLEAN}

\* Ubus._do_request; R is the set of answers the transport can give
do_request(c, rpcmethod, subsystem, method, params, R) ==
    IF Keys(params) \cap DoRequestParameters # {}
    THEN {[c |-> c, out |-> Raise("TypeError", "multiple values for argument", params)]}
    ELSE LET i == id(c)
             data == Envelope(i.c, i.v, rpcmethod, subsystem, method, params)
             c1 == [i.c EXCEPT !.sent = Append(@, data), !.built = @ + 1]
         IN  {[c |-> [c1 EXCEPT !.posts = @ + 1, !.response = r],
               out |-> Decode(method, r, pm)] : r \in R, pm \in BOOLEAN}

(***************************************************************************)
(* The answers of the transport the model draws from.                      *)
(***************************************************************************)
String == PyStr("String")
Obj1(k, v) == PyDict({<<k, v>>})
ResultBody(result) == Http(HTTP_OK, Obj1("result", result))

LoginParametersS ==
    PyDict({<<"username", String>>, <<"password", String>>, <<"ubus_rpc_session", String>>})
ExecParameters == PyDict({<<"method", String>>, <<"ubus_rpc_session", String>>})

\* the objects a `list` request is answered with
Listings ==
    { PyDict({}),
      Obj1("session", PyDict({})),
      PyDict({<<"session", Obj1("login", LoginParametersS)>>,
              <<"rpc", Obj1("exec", ExecParameters)>>}) }

\* the results a `call` request is answered with
CallResults ==
    { PyList(<<PyInt(0), Obj1("ubus_rpc_session", PyStr("tokA"))>>),
      PyList(<<PyInt(0), Obj1("ubus_rpc_session", PyStr("tokB"))>>),
      PyList(<<PyInt(0), PyDict({})>>),
      PyList(<<PyInt(0), PyBool(TRUE)>>),
      PyList(<<PyInt(6)>>),
      None }

\* the transport of the client model
Responses ==
    {Timeout, Http(500, None), Http(HTTP_OK, Obj1("error", PyInt(-32002)))}
        \cup {ResultBody(r) : r \in Listings \cup CallResults}

\* the transport of the decoding model: results of every shape
MethodNames == {"", "list", "login"}
Leaves ==
    {None, PyBool(TRUE), PyInt(5), PyStr("tokA"), PyStr("no results"),
     PyList(<<PyStr("results")>>), PyDict({})}
Nested1 == Leaves \cup {Obj1(k, v) : k \in {"results", "login"}, v \in Leaves}
Nested2 == Nested1 \cup {Obj1(k, v) : k \in {"results", "login", "list"}, v \in Nested1}
        \cup {PyBool(FALSE)}
StatusCodes ==
    {PyInt(0), PyInt(1), PyInt(10), PyInt(11), PyInt(12), PyInt(99), PyInt(-1),
     PyBool(FALSE), PyStr("0"), None}
DecodeResults ==
    Nested2
        \cup {PyList(<<PyInt(0), p>>) : p \in Nested2}
        \cup {PyList(<<c>>) : c \in StatusCodes}
        \cup {PyList(<<c, p>>) : c \in StatusCodes, p \in {None, PyDict({})}}
        \cup {PyList(<<>>), PyList(<<PyInt(0), PyDict({}), PyDict({})>>)}
DecodeResponses ==
    {Timeout, ConnectionError, Http(500, ResultBody(PyDict({})).body), Http(404, NotJson),
     Http(HTTP_OK, PyDict({})), Http(HTTP_OK, NotJson), Http(HTTP_OK, None),
     Http(HTTP_OK, Obj1("error", PyInt(-32002))),
     Http(HTTP_OK, PyDict({<<"error", PyInt(-32002)>>, <<"result", PyList(<<PyInt(0), PyDict({})>>)>>}))}
        \cup {ResultBody(r) : r \in DecodeResults}

(***************************************************************************)
(* Discovery: Ubus.namespaces and UbusNamespace.methods                    *)
(***************************************************************************)
\* Ubus._fetch_ifaces
fetch_ifaces(c) ==
    Bind(do_request(c, "list", "*", "", PyDict({}), Responses),
         LAMBDA r :
            IF ~Iterable(r.out.v)
            THEN {[c |-> r.c, out |-> Raise("TypeError", "not iterable", r.out.v)]}
            ELSE {[c |-> [r.c EXCEPT !.ifaces_fetches = @ + 1],
                   out |-> Return(PyDict({<<x, UbusNamespaceObject(x)>> : x \in IterNames(r.out.v)}))]})

\* `if not self._ifaces` and `if not self._methods`
CacheIsEmpty(cache) == ~Truthy(cache)

\* Ubus.namespaces: the UbusNamespace objects of a fetch are new ones
namespaces(c) ==
    IF CacheIsEmpty(c.ifaces)
    THEN Bind(fetch_ifaces(c),
              LAMBDA r : {[c |-> [r.c EXCEPT !.ifaces = r.out.v,
                                             !.methods = [n \in NamespaceNames |-> None],
                                             !.methods_fetches = [n \in NamespaceNames |-> 0]],
                           out |-> r.out]})
    ELSE {[c |-> c, out |-> Return(c.ifaces)]}

\* a lookup that makes up a namespace for a name that was not discovered
Ubus_getitem_any(c, item) ==
    Bind(namespaces(c),
         LAMBDA r :
            IF ~In(item, r.out.v)
            THEN {[c |-> r.c, out |-> Return(UbusNamespaceObject(item))]}
            ELSE Bind(namespaces(r.c),
                      LAMBDA r2 : {[c |-> r2.c, out |-> Return(Get(r2.out.v, item))]}))

\* Ubus.__getitem__
Ubus_getitem(c, item) ==
    Bind(namespaces(c),
         LAMBDA r :
            IF ~In(item, r.out.v)
            THEN {[c |-> r.c, out |-> Raise("UbusException", "non-existing interface", PyStr(item))]}
            ELSE Bind(namespaces(r.c),
                      LAMBDA r2 : {[c |-> r2.c, out |-> Return(Get(r2.out.v, item))]}))

\* the parsing that keeps every declared name
parse_parameters_keep(parameters) ==
    IF ~Iterable(parameters) THEN Raise("TypeError", "in parameters", parameters)
    ELSE Return(parameters)

\* Method._parse_parameters
parse_parameters(parameters) ==
    IF ~Iterable(parameters) THEN Raise("TypeError", "in parameters", parameters)
    ELSE IF ~In("ubus_rpc_session", parameters) THEN Return(parameters)
    ELSE IF parameters.t # "dict" THEN Raise("TypeError", "del parameters[...]", parameters)
    ELSE Return(Del(parameters, "ubus_rpc_session"))

\* UbusNamespace._fetch_methods, lines 96-99, for the listing res[self.name]
MethodsOf(name, listing) ==
    IF ~Iterable(listing) THEN Raise("TypeError", "not iterable", listing)
    ELSE IF listing.t # "dict"
    THEN IF IterNames(listing) = {} THEN Return(PyDict({}))
         ELSE Raise("TypeError", "methods[x]", listing)
    ELSE IF \E x \in Keys(listing) : parse_parameters(Get(listing, x)).k = "raise"
    THEN Raise("TypeError", "Method()", listing)
    ELSE Return(PyDict({<<x, MethodObject(name, x, parse_parameters(Get(listing, x)).v)>> :
                            x \in Keys(listing)}))

\* UbusNamespace._fetch_methods
fetch_methods(c, name) ==
    Bind(do_request(c, "list", name, "", PyDict({}), Responses),
         LAMBDA r :
            LET res == r.out.v
            IN  IF ~Iterable(res)
                THEN {[c |-> r.c, out |-> Raise("TypeError", "self.name not in res", res)]}
                ELSE IF ~In(name, res)
                THEN {[c |-> r.c, out |-> Raise("UbusException", "Got incorrect method listing", res)]}
                ELSE IF ~Subscriptable(res, name)
                THEN {[c |-> r.c, out |-> Raise("TypeError", "res[self.name]", res)]}
                ELSE LET m == MethodsOf(name, Get(res, name))
                     IN  IF m.k = "raise" THEN {[c |-> r.c, out |-> m]}
                         ELSE {[c |-> [r.c EXCEPT !.methods_fetches[name] = @ + 1],
                                out |-> m]})

\* the property that caches an empty listing when the discovery failed
methods_of_failure_cached(c, name) ==
    IF CacheIsEmpty(c.methods[name])
    THEN {IF r.out.k = "raise"
          THEN [c |-> [r.c EXCEPT !.methods[name] = PyDict({})], out |-> r.out]
          ELSE [c |-> [r.c EXCEPT !.methods[name] = r.out.v], out |-> r.out] :
             r \in fetch_methods(c, name)}
    ELSE {[c |-> c, out |-> Return(c.methods[name])]}

\* UbusNamespace.methods
methods_of(c, name) ==
    IF CacheIsEmpty(c.methods[name])
    THEN Bind(fetch_methods(c, name),
              LAMBDA r : {[c |-> [r.c EXCEPT !.methods[name] = r.out.v], out |-> r.out]})
    ELSE {[c |-> c, out |-> Return(c.methods[name])]}

\* UbusNamespace.__getitem__
UbusNamespace_getitem(c, name, item) ==
    Bind(methods_of(c, name),
         LAMBDA r :
            IF ~In(item, r.out.v)
            THEN {[c |-> r.c, out |-> Raise("UbusException", "non-existing method", PyStr(item))]}
            ELSE Bind(methods_of(r.c, name),
                      LAMBDA r2 : {[c |-> r2.c, out |-> Return(Get(r2.out.v, item))]}))

(***************************************************************************)
(* Invocation and login                                                    *)
(***************************************************************************)
\* UbusNamespace.call
UbusNamespace_call(c, name, method, kwargs) ==
    IF Keys(kwargs) \cap CallParameters # {}
    THEN {[c |-> c, out |-> Raise("TypeError", "multiple values for argument", kwargs)]}
    ELSE do_request(c, "call", name, method, kwargs, Responses)

\* Method.__call__, line 52: the arguments that are declared parameters
FilterArgs(parameters, kwargs) == PyDict({p \in kwargs.v : p[1] \in Keys(parameters)})

\* the test that also refuses as many arguments as parameters
TooManyArgs_or_all(args, parameters) == Cardinality(args.v) >= Cardinality(parameters.v)

\* Method.__call__, line 54
TooManyArgs(args, parameters) == Cardinality(args.v) > Cardinality(parameters.v)

\* the invocation that takes its request number before it looks at the names
Method_call_numbered(c, m, kwargs) ==
    IF "self" \in Keys(kwargs)
    THEN {[c |-> c, out |-> Raise("TypeError", "multiple values for argument", kwargs)]}
    ELSE IF m.parameters.t # "dict"
    THEN {[c |-> c, out |-> Raise("AttributeError", "keys", m.parameters)]}
    ELSE IF \E kw \in Keys(kwargs) : kw \notin Keys(m.parameters)
    THEN {[c |-> id(c).c, out |-> Raise("UbusException", "Got unwanted parameter", kwargs)]}
    ELSE UbusNamespace_call(c, m.namespace, m.name, FilterArgs(m.parameters, kwargs))

\* Method.__call__ of the Method object m
Method_call(c, m, kwargs) ==
    IF "self" \in Keys(kwargs)
    THEN {[c |-> c, out |-> Raise("TypeError", "multiple values for argument", kwargs)]}
    ELSE IF m.parameters.t # "dict"
    THEN {[c |-> c, out |-> Raise("AttributeError", "keys", m.parameters)]}
    ELSE IF \E kw \in Keys(kwargs) : kw \notin Keys(m.parameters)
    THEN {[c |-> c, out |-> Raise("UbusException", "Got unwanted parameter", kwargs)]}
    ELSE LET args == FilterArgs(m.parameters, kwargs)
         IN  IF TooManyArgs(args, m.parameters)
             THEN {[c |-> c, out |-> Raise("UbusException", "Got too many parameters", args)]}
             ELSE UbusNamespace_call(c, m.namespace, m.name, args)

\* the login that falls back to the placeholder when it fails
LoginResult_reset(r) ==
    LET result == r.out.v
    IN  IF Iterable(result) /\ Subscriptable(result, "ubus_rpc_session")
        THEN [c |-> [r.c EXCEPT !.session_id = Get(result, "ubus_rpc_session")],
              out |-> Return(result)]
        ELSE [c |-> [r.c EXCEPT !.session_id = PLACEHOLDER],
              out |-> Raise("UbusException", "Login failed", result)]

\* Ubus.login, lines 123-126, on the result of the call
LoginResult(r) ==
    LET result == r.out.v
    IN  IF ~Iterable(result)
        THEN [c |-> r.c, out |-> Raise("TypeError", "not in result", result)]
        ELSE IF ~In("ubus_rpc_session", result)
        THEN [c |-> r.c, out |-> Raise("UbusException", "Login failed", result)]
        ELSE IF ~Subscriptable(result, "ubus_rpc_session")
        THEN [c |-> r.c, out |-> Raise("TypeError", "result[...]", result)]
        ELSE [c |-> [r.c EXCEPT !.session_id = Get(result, "ubus_rpc_session")],
              out |-> Return(result)]

\* the login that calls session.login without looking it up
login_undiscovered(c, username, password) ==
    Bind(UbusNamespace_call(c, "session", "login",
                            PyDict({<<"username", username>>, <<"password", password>>})),
         LAMBDA r3 : {LoginResult(r3)})

\* Ubus.login
login(c, username, password) ==
    Bind(Ubus_getitem(c, "session"),
         LAMBDA r1 :
            Bind(UbusNamespace_getitem(r1.c, r1.out.v.name, "login"),
                 LAMBDA r2 :
                    Bind(Method_call(r2.c, r2.out.v,
                                     PyDict({<<"username", username>>, <<"password", password>>})),
                         LAMBDA r3 : {LoginResult(r3)})))

(***************************************************************************)
(* The state machine: one action for each operation of the public          *)
(* interface, applied to the client the variables hold.                    *)
(***************************************************************************)
MaxRequests == 4
MaxDecodeRequests == 1

\* the client at the start of an operation
Client ==
    [message_id |-> message_id, session_id |-> session_id, ifaces |-> ifaces,
     methods |-> methods, sent |-> <<>>, posts |-> posts, built |-> built,
     response |-> NoResponse, ifaces_fetches |-> ifaces_fetches,
     methods_fetches |-> methods_fetches]

Op(name, ns, method, kwargs) == [name |-> name, ns |-> ns, method |-> method, kwargs |-> kwargs]
NoArgs == PyDict({})

\* the operation o ended with the result r
Commit(r, o, limit) ==
    /\ r.c.message_id <= limit
    /\ message_id' = r.c.message_id
    /\ session_id' = r.c.session_id
    /\ ifaces' = r.c.ifaces
    /\ methods' = r.c.methods
    /\ sent' = r.c.sent
    /\ posts' = r.c.posts
    /\ built' = r.c.built
    /\ ifaces_fetches' = r.c.ifaces_fetches
    /\ methods_fetches' = r.c.methods_fetches
    /\ response' = r.c.response
    /\ op' = o
    /\ outcome' = r.out

Init ==
    /\ message_id = NewUbus.message_id
    /\ session_id = NewUbus.session_id
    /\ ifaces = NewUbus.ifaces
    /\ methods = NewUbus.methods
    /\ sent = NewUbus.sent
    /\ posts = NewUbus.posts
    /\ built = NewUbus.built
    /\ ifaces_fetches = NewUbus.ifaces_fetches
    /\ methods_fetches = NewUbus.methods_fetches
    /\ response = NoResponse
    /\ op = Op("init", "", "", NoArgs)
    /\ outcome = Return(None)

\* the arguments the callers of the model supply
Username == PyStr("root")
Password == PyStr("secret")
ArgValue(k) == IF k = "username" THEN Username ELSE IF k = "password" THEN Password ELSE PyStr("x")
Kwargs == {PyDict({<<k, ArgValue(k)>> : k \in K}) :
              K \in {{}, {"username"}, {"username", "password"}, {"method"}, {"ubus_rpc_session"}}}
NamespaceLookups == {"session", "nosuch"}
MethodLookups == {"login", "nosuch"}
InvokedMethods == {"login", "exec"}
CalledMethods == {"login"}
CallKwargs == {NoArgs, PyDict({<<"method", PyStr("x")>>})}

\* the UbusNamespace and Method objects that exist
HasNamespace(ns) == ifaces.t = "dict" /\ ns \in Keys(ifaces)
HasMethod(ns, m) == HasNamespace(ns) /\ methods[ns].t = "dict" /\ m \in Keys(methods[ns])

\* ubus.namespaces (also __iter__ and __str__)
AccessNamespaces ==
    \E r \in namespaces(Client) : Commit(r, Op("namespaces", "", "", NoArgs), MaxRequests)

\* ubus.namespaces[ns].methods (also __iter__)
AccessMethods(ns) ==
    /\ HasNamespace(ns)
    /\ \E r \in methods_of(Client, ns) : Commit(r, Op("methods", ns, "", NoArgs), MaxRequests)

\* ubus[item]
GetNamespace(item) ==
    \E r \in Ubus_getitem(Client, item) :
        Commit(r, Op("Ubus.__getitem__", item, "", NoArgs), MaxRequests)

\* ubus.namespaces[ns][item]
GetMethod(ns, item) ==
    /\ HasNamespace(ns)
    /\ \E r \in UbusNamespace_getitem(Client, ns, item) :
        Commit(r, Op("UbusNamespace.__getitem__", ns, item, NoArgs), MaxRequests)

\* ubus.namespaces[ns].methods[m](**kwargs)
Invoke(ns, m, kwargs) ==
    /\ HasMethod(ns, m)
    /\ \E r \in Method_call(Client, Get(methods[ns], m), kwargs) :
        Commit(r, Op("Method.__call__", ns, m, kwargs), MaxRequests)

\* ubus.namespaces[ns].call(method, **kwargs)
Call(ns, method, kwargs) ==
    /\ HasNamespace(ns)
    /\ \E r \in UbusNamespace_call(Client, ns, method, kwargs) :
        Commit(r, Op("UbusNamespace.call", ns, method, kwargs), MaxRequests)

\* ubus.login(username, password); __enter__ is this call with the stored
\* credentials
Login ==
    \E r \in login(Client, Username, Password) :
        Commit(r, Op("login", "session", "login", NoArgs), MaxRequests)

\* Ubus.__exit__
Exit ==
    Commit([c |-> Client, out |-> Return(None)], Op("__exit__", "", "", NoArgs), MaxRequests)

Next ==
    \/ AccessNamespaces
    \/ \E ns \in NamespaceNames : AccessMethods(ns)
    \/ \E item \in NamespaceLookups : GetNamespace(item)
    \/ \E ns \in NamespaceNames, item \in MethodLookups : GetMethod(ns, item)
    \/ \E ns \in NamespaceNames, m \in InvokedMethods, kwargs \in Kwargs : Invoke(ns, m, kwargs)
    \/ \E ns \in NamespaceNames, m \in CalledMethods, kwargs \in CallKwargs : Call(ns, m, kwargs)
    \/ Login
    \/ Exit

Spec == Init /\ [][Next]_vars

(***************************************************************************)
(* The decoding model: _do_request on a new client, answered with results  *)
(* of every shape.                                                         *)
(***************************************************************************)
\* ubus._do_request(rpcmethod, subsystem, method)
Request(rpcmethod, subsystem, method) ==
    \E r \in do_request(Client, rpcmethod, subsystem, method, NoArgs, DecodeResponses) :
        Commit(r, Op("_do_request", subsystem, method, NoArgs), MaxDecodeRequests)

DecodeNext ==
    \/ Request("list", "session", "")
    \/ \E m \in MethodNames : Request("call", "session", m)

SpecDecode == Init /\ [][DecodeNext]_vars

(***************************************************************************)
(* Properties                                                              *)
(***************************************************************************)
\* the last operation made a request and _do_request returned this value
LastRequestIs(rpcmethod) == sent # <<>> /\ sent[Len(sent)].method = rpcmethod
Decoded == Decode(sent[Len(sent)].params[3], response, FALSE)

\* the result of the last answer, when its body is {"result": ...}
HasResult == response.kind = "http" /\ response.status = HTTP_OK
                /\ response.body.t = "dict" /\ Keys(response.body) = {"result"}
Result == Get(response.body, "result")
IsStatusList(n) == HasResult /\ Result.t = "list" /\ Len(Result.v) = n
IsOkPair == IsStatusList(2) /\ Result.v[1] = PyInt(UBUS_STATUS_OK)

\* C1: the k-th request envelope built carries id k: as many envelopes were
\* built as the counter says, and the envelopes of the last operation,
\* the last Len(sent) ones built, carry the numbers up to that count in order.
C1_RequestIdIsOrdinal ==
    /\ built = message_id
    /\ \A i \in 1..Len(sent) : sent[i].id = built - Len(sent) + i

\* C1: a discovery that succeeded with request 2, after request 1 had failed
C1_SecondRequestAfterFailure ==
    /\ op.name = "namespaces" /\ outcome.k = "return"
    /\ Len(sent) = 1 /\ sent[1].id = 2 /\ ifaces_fetches = 1

\* C2: the list request of Ubus.namespaces and of UbusNamespace.methods
\* completes at most once per instance, whatever the listing holds.
C2_DiscoveryAtMostOnce ==
    /\ ifaces_fetches <= 1
    /\ \A ns \in NamespaceNames : methods_fetches[ns] <= 1

\* C3: a login whose call decoded to a value without the key
\* ubus_rpc_session raises UbusException; with the key the session id is
\* that value and login returns; the envelopes of every later operation carry
\* the session id.
C3_LoginSetsSession ==
    /\ (op.name = "login" /\ LastRequestIs("call") /\ Decoded.k = "return") =>
         IF Decoded.v.t = "dict" /\ "ubus_rpc_session" \in Keys(Decoded.v)
         THEN session_id = Get(Decoded.v, "ubus_rpc_session") /\ outcome = Return(Decoded.v)
         ELSE outcome.k = "raise" /\ outcome.exc = "UbusException"
    /\ op.name # "login" => \A i \in 1..Len(sent) : sent[i].params[1] = session_id

\* C4: a result [0, true] or [0, false] decodes to that boolean.
C4_BooleanPayloadReturned ==
    (IsOkPair /\ Result.v[2].t = "bool") => outcome = Return(Result.v[2])

\* C5: a status code of 11 or more, in a result of one or two elements,
\* raises the same UbusException as the codes 1..10, carrying the code.
C5_OutOfRangeStatusIsBusError ==
    ((IsStatusList(1) \/ IsStatusList(2)) /\ Result.v[1].t = "int"
        /\ Result.v[1].v >= UBUS_STATUS_LAST) =>
            /\ outcome.k = "raise" /\ outcome.exc = "UbusException"
            /\ outcome.v \in {Result, Result.v[1]}

\* C6: for a method name m, a result [0, {m: Y}] decodes to Y for a call to
\* m, and to the object {m: Y} itself for a call to another method.  Stated
\* for the values Y that hold no 'results', which no step of the decoding is
\* meant to unwrap further.
C6_UnwrapsOwnMethodOnly ==
    \A m \in MethodNames \ {""} :
        (/\ IsOkPair /\ Result.v[2].t = "dict" /\ Keys(Result.v[2]) = {m}
         /\ ~(Iterable(Get(Result.v[2], m)) /\ In("results", Get(Result.v[2], m)))) =>
            IF op.method = m
            THEN outcome = Return(Get(Result.v[2], m))
            ELSE outcome = Return(Result.v[2])

\* C7: a result of one element never decodes to a payload: it raises.
C7_SingleElementRaises == IsStatusList(1) => outcome.k = "raise"

\* C7: the one-element result [0] raised
C7_SingleOkRaised == IsStatusList(1) /\ Result.v[1] = PyInt(UBUS_STATUS_OK) /\ outcome.k = "raise"

\* C8: a result [0, {"results": X}] decodes to X for the method "list".
C8_ListYieldsResults ==
    (op.method = "list" /\ IsOkPair /\ Result.v[2].t = "dict"
        /\ Keys(Result.v[2]) = {"results"}) =>
            outcome = Return(Get(Result.v[2], "results"))

\* C8: the method "list" answered with [0, {"results": {"login": 5}}]
C8_ListDecoded ==
    /\ op.method = "list"
    /\ response = ResultBody(PyList(<<PyInt(0), Obj1("results", Obj1("login", PyInt(5)))>>))
    /\ outcome = Return(Obj1("login", PyInt(5)))

\* C9: an invocation with an argument name outside the declared parameters
\* raises UbusException; one with declared names only makes the request, whose
\* argument object holds exactly the supplied names and values.
C9_InvokeForwardsArguments ==
    op.name = "Method.__call__" =>
        LET parameters == Get(methods[op.ns], op.method).parameters
        IN  IF Keys(op.kwargs) \subseteq Keys(parameters)
            THEN Len(sent) = 1 /\ sent[1].params = <<session_id, op.ns, op.method, op.kwargs>>
            ELSE sent = <<>> /\ outcome.k = "raise" /\ outcome.exc = "UbusException"

\* C10: the session id is the placeholder at first, and only a login that
\* returns changes it, to the value of the key in what it returns.
C10_OnlyLoginSetsSession ==
    /\ session_id = PLACEHOLDER
    /\ [][session_id' # session_id =>
            /\ op'.name = "login" /\ outcome'.k = "return"
            /\ session_id' = Get(outcome'.v, "ubus_rpc_session")]_vars

\* C10: a login that failed after an earlier one had set the session id
C10_FailedLoginKeepsSession ==
    op.name = "login" /\ outcome.k = "raise" /\ session_id = PyStr("tokA")

\* C11: a lookup whose discovery did not fail (the cache was used, or this
\* lookup fetched it) returns the cached UbusNamespace or Method when the name
\* is in the cache, and raises the UbusException of a non-existing interface
\* or method when it is not.
C11_LookupFoundOrNotFound ==
    /\ [][(/\ op'.name = "Ubus.__getitem__"
           /\ (sent' = <<>> \/ ifaces_fetches' = ifaces_fetches + 1)) =>
            IF op'.ns \in Keys(ifaces')
            THEN outcome' = Return(Get(ifaces', op'.ns))
            ELSE outcome' = Raise("UbusException", "non-existing interface", PyStr(op'.ns))]_vars
    /\ [][(/\ op'.name = "UbusNamespace.__getitem__"
           /\ (sent' = <<>> \/ methods_fetches'[op'.ns] = methods_fetches[op'.ns] + 1)) =>
            IF op'.method \in Keys(methods'[op'.ns])
            THEN outcome' = Return(Get(methods'[op'.ns], op'.method))
            ELSE outcome' = Raise("UbusException", "non-existing method", PyStr(op'.method))]_vars

\* C11: a lookup of an undiscovered namespace, answered from a cache that
\* holds other namespaces
C11_AbsentNamespaceRaised ==
    /\ op.name = "Ubus.__getitem__" /\ op.ns = "nosuch" /\ sent = <<>>
    /\ "session" \in Keys(ifaces)
    /\ outcome = Raise("UbusException", "non-existing interface", PyStr("nosuch"))

\* C12: a result that is a list decodes to a payload exactly when it has two
\* elements and the first is the status 0; two elements with a status of
\* 1..10 raise the UbusException of a bus error, and a list of no or of three
\* and more elements raises the UbusException of a malformed length.
C12_PayloadIffOkPair ==
    (HasResult /\ Result.t = "list" /\ op.name = "_do_request") =>
        /\ outcome.k = "return" <=>
              (Len(Result.v) = 2 /\ AsInt(Result.v[1]) = UBUS_STATUS_OK)
        /\ (Len(Result.v) = 2 /\ Result.v[1].t = "int"
                /\ Result.v[1].v \in 1..UBUS_STATUS_CONNECTION_FAILED) =>
              outcome = Raise("UbusException", "Got an error", Result)
        /\ Len(Result.v) \notin {1, 2} =>
              outcome = Raise("UbusException", "Result length was not 2", Result)

C14_OnePostPerRequest ==
    /\ [](posts = built)
    /\ [][posts' = posts + Len(sent')]_vars

\* C14: the second request of the client timed out and was posted once
C14_TimeoutNotRetried ==
    response = Timeout /\ Len(sent) = 1 /\ sent[1].id = 2 /\ posts = 2 /\ outcome.k = "raise"

\* C15: no Method of a discovered namespace declares the parameter
\* ubus_rpc_session, whatever the listing declared, and an invocation that
\* supplies ubus_rpc_session raises the UbusException of an unwanted parameter
\* without making a request.
C15_SessionKeyNeverDeclared ==
    /\ \A ns \in NamespaceNames :
          methods[ns].t = "dict" =>
             \A m \in Keys(methods[ns]) :
                LET parameters == Get(methods[ns], m).parameters
                IN  ~(Iterable(parameters) /\ In("ubus_rpc_session", parameters))
    /\ (op.name = "Method.__call__" /\ "ubus_rpc_session" \in Keys(op.kwargs)) =>
          sent = <<>> /\ outcome = Raise("UbusException", "Got unwanted parameter", op.kwargs)

\* C15: session.login, listed with ubus_rpc_session among its parameters, was
\* invoked with ubus_rpc_session and rejected
C15_SessionKeyRejected ==
    /\ op.name = "Method.__call__" /\ op.ns = "session" /\ op.method = "login"
    /\ Keys(op.kwargs) = {"ubus_rpc_session"}
    /\ Keys(Get(methods["session"], "login").parameters) = {"username", "password"}
    /\ outcome.k = "raise" /\ outcome.why = "Got unwanted parameter"

\* C16: a cache changes only in a step whose discovery succeeded; an access to
\* namespaces or methods that raises leaves the cache as it was, still empty;
\* and an access that finds the cache empty sends the list request again.
C16_FailedDiscoveryNotCached ==
    /\ [][ifaces' # ifaces => ifaces_fetches' = ifaces_fetches + 1]_vars
    /\ [][\A ns \in NamespaceNames :
            methods'[ns] # methods[ns] => methods_fetches'[ns] = methods_fetches[ns] + 1]_vars
    /\ [][(op'.name = "namespaces" /\ outcome'.k = "raise") =>
            ifaces' = ifaces /\ CacheIsEmpty(ifaces')]_vars
    /\ [][(op'.name = "methods" /\ outcome'.k = "raise") =>
            methods' = methods /\ CacheIsEmpty(methods'[op'.ns])]_vars
    /\ [][(op'.name = "namespaces" /\ CacheIsEmpty(ifaces)) =>
            /\ Len(sent') = 1
            /\ sent'[1].method = "list" /\ sent'[1].params[2] = "*"]_vars
    /\ [][(op'.name = "methods" /\ CacheIsEmpty(methods[op'.ns])) =>
            /\ Len(sent') = 1
            /\ sent'[1].method = "list" /\ sent'[1].params[2] = op'.ns]_vars

\* C16: a method discovery answered without the key of the namespace raised
\* and left the cache unset
C16_IncorrectListingNotCached ==
    /\ op.name = "methods" /\ outcome.k = "raise"
    /\ outcome.why = "Got incorrect method listing"
    /\ methods[op.ns] = None /\ methods_fetches[op.ns] = 0

\* the envelope with number i of a request made under the session id sid
EnvelopeIs(e, i, sid, rpcmethod, subsystem, method, params) ==
    e = [jsonrpc |-> "2.0", id |-> i, method |-> rpcmethod,
         params |-> <<sid, subsystem, method, params>>]
Credentials == PyDict({<<"username", Username>>, <<"password", Password>>})

\* C17: a login that returns on a client that had made no request before sent
\* three requests: list '*' with id 1, list 'session' with id 2 and call
\* session login with the credentials with id 3, all under the placeholder
\* session id; a login on a client that has logged in before sends the call
\* only, under the session id it has.
C17_LoginRequestSequence ==
    /\ []((op.name = "login" /\ outcome.k = "return" /\ built = Len(sent)) =>
            /\ Len(sent) = 3
            /\ EnvelopeIs(sent[1], 1, PLACEHOLDER, "list", "*", "", NoArgs)
            /\ EnvelopeIs(sent[2], 2, PLACEHOLDER, "list", "session", "", NoArgs)
            /\ EnvelopeIs(sent[3], 3, PLACEHOLDER, "call", "session", "login", Credentials))
    /\ [][(op'.name = "login" /\ session_id # PLACEHOLDER) =>
            /\ Len(sent') = 1
            /\ EnvelopeIs(sent'[1], message_id + 1, session_id,
                          "call", "session", "login", Credentials)]_vars

\* C17: the first operation of a client was a login and it returned
C17_FreshLoginReturned ==
    /\ op.name = "login" /\ outcome.k = "return" /\ built = 3 /\ Len(sent) = 3
    /\ session_id = PyStr("tokA")

\* C18: an invocation with an argument name that the Method does not declare
\* raises the UbusException of an unwanted parameter and changes nothing: no
\* envelope is built, no POST is made, and the request counter, the session id
\* and both caches stay as they were.
C18_RejectedInvocationHasNoEffect ==
    [][(/\ op'.name = "Method.__call__"
        /\ ~(Keys(op'.kwargs) \subseteq Keys(Get(methods[op'.ns], op'.method).parameters))) =>
            /\ outcome' = Raise("UbusException", "Got unwanted parameter", op'.kwargs)
            /\ sent' = <<>> /\ built' = built /\ posts' = posts
            /\ message_id' = message_id /\ session_id' = session_id
            /\ ifaces' = ifaces /\ methods' = methods]_vars

\* C18: rpc.exec was invoked with a username and a password, which it does not
\* declare, on a client that had made requests and logged in
C18_UndeclaredNamesRejected ==
    /\ op.name = "Method.__call__" /\ op.method = "exec"
    /\ Keys(op.kwargs) = {"username", "password"}
    /\ outcome.k = "raise" /\ outcome.why = "Got unwanted parameter"
    /\ sent = <<>> /\ message_id = 4 /\ session_id # PLACEHOLDER

\* the values a value holds, itself included
RECURSIVE Within(_)
Within(x) ==
    {x} \cup (CASE x.t = "dict" -> UNION {Within(p[2]) : p \in x.v}
                [] x.t = "list" -> UNION {Within(x.v[i]) : i \in 1..Len(x.v)}
                [] OTHER -> {})

\* C19: a 200 answer whose result is neither a dict nor a list (a string, a
\* number, a boolean, null) makes _do_request return None; every other value
\* that _do_request returns is a value held in the result of a 200 answer.
C19_ScalarResultReturnsNone ==
    op.name = "_do_request" =>
        /\ (HasResult /\ Result.t \notin {"dict", "list"}) => outcome = Return(None)
        /\ outcome.k = "return" =>
              /\ HasResult
              /\ Result.t \in {"dict", "list"} => outcome.v \in Within(Result)

\* C19: the result was a string and None was returned
C19_StringResultReturnedNone ==
    /\ op.name = "_do_request" /\ HasResult /\ Result = PyStr("tokA")
    /\ outcome = Return(None)

\* the names the declared parameters and the supplied arguments are drawn from
ArgNames == {"username", "password", "method", "ubus_rpc_session"}
DictOf(K) == PyDict({<<k, ArgValue(k)>> : k \in K})

\* C20: the test of line 54 is never true: the arguments that are left after
\* filtering are never more than the declared parameters, for the invocations
\* of the model and for every set of declared and of supplied names, so no
\* invocation raises the UbusException of too many parameters.
C20_TooManyParametersUnreachable ==
    /\ outcome.why # "Got too many parameters"
    /\ op.name = "Method.__call__" =>
          LET parameters == Get(methods[op.ns], op.method).parameters
          IN  ~TooManyArgs(FilterArgs(parameters, op.kwargs), parameters)
    /\ \A P \in SUBSET ArgNames, K \in SUBSET ArgNames :
          ~TooManyArgs(FilterArgs(DictOf(P), DictOf(K)), DictOf(P))

\* C20: session.login was invoked with every parameter it declares, passed the
\* test and made its request
C20_AllParametersSupplied ==
    /\ op.name = "Method.__call__" /\ op.method = "login"
    /\ Keys(op.kwargs) = Keys(Get(methods[op.ns], op.method).parameters)
    /\ Len(sent) = 1 /\ sent[1].params[4] = op.kwargs

====
